---------------------------- MODULE Spec2Model ----------------------------
(***************************************************************************)
(* A model of hybrid_pdf_parser.py: HybridPDFParser (GROBID first, PyMuPDF *)
(* as the fallback) and the batch loop of main().                          *)
(*                                                                         *)
(* Python strings are sequences of one-character strings, so that len,     *)
(* strip, split and + are computed as Python computes them.  None is the   *)
(* record None.  The two external collaborators are inputs: an HTTP        *)
(* response of the GROBID service and the content of the local PDF file.   *)
(***************************************************************************)
EXTENDS Integers, Sequences, FiniteSets, TLC

VARIABLES
    pdf_files,        \* main: list(input_dir.glob("*.pdf")), file names
    i,                \* main: number of documents whose loop body is complete
    pc,               \* position of the run of main()
    xml_content,      \* parse_article: what parse_pdf_to_xml returned
    extracted_data,   \* parse_article: {"abstract", "full_text"} of the path that ran
    method,           \* parse_article: "GROBID" or "PyMuPDF"
    results,          \* main: the list of results
    grobid_success,   \* main: counter
    pymupdf_success,  \* main: counter
    failed,           \* main: counter
    written,          \* the files this run has written into output_dir
    log,              \* history: per document, the calls made and the outcome
    pdf,              \* extract_text_with_pymupdf: the document fitz.open reads
    full_text,        \* extract_text_with_pymupdf: concatenated page text
    lines,            \* extract_text_with_pymupdf: full_text.split('\n')
    scan,             \* extract_text_with_pymupdf: the state of the abstract loop
    spc,              \* extract_text_with_pymupdf: position inside the function
    scan_result       \* extract_text_with_pymupdf: the returned dictionary

vars == <<pdf_files, i, pc, xml_content, extracted_data, method, results,
          grobid_success, pymupdf_success, failed, written, log,
          pdf, full_text, lines, scan, spc, scan_result>>

mainVars == <<pdf_files, i, pc, xml_content, extracted_data, method, results,
              grobid_success, pymupdf_success, failed, written, log>>

scanVars == <<pdf, full_text, lines, scan, spc, scan_result>>

---------------------------------------------------------------------------
(* Bounds of the model.                                                    *)

\* The largest number of files the input directory holds.
MaxFiles == 3

\* The largest number of pages that follow the front page of a scanned PDF.
MaxPages == 2

---------------------------------------------------------------------------
(* Program constants.                                                      *)

\* lines[:20]
ScanLines == 20

\* len(line) > 50
MinLineLen == 50

\* len(abstract) > 500
AbstractBudget == 500

\* response.status_code == 200
HttpOk == 200

---------------------------------------------------------------------------
(* Python values.                                                          *)

None == [none |-> TRUE]

EmptyStr == << >>

\* c repeated n times: c * n
Rep(c, n) == [k \in 1..n |-> c]

\* The white space str.strip() removes.
Whitespace == {" ", "\t", "\n", "\r", "\f"}

\* s.strip(): s without its leading and trailing white space.
Strip(s) ==
    IF \A k \in 1..Len(s) : s[k] \in Whitespace
    THEN EmptyStr
    ELSE LET first == CHOOSE a \in 1..Len(s) :
                          /\ s[a] \notin Whitespace
                          /\ \A b \in 1..(a - 1) : s[b] \in Whitespace
             last  == CHOOSE a \in 1..Len(s) :
                          /\ s[a] \notin Whitespace
                          /\ \A b \in (a + 1)..Len(s) : s[b] \in Whitespace
         IN  SubSeq(s, first, last)

\* s.split('\n'): the pieces between the line feeds, one more than there are
\* line feeds.
Split(s) ==
    LET nl      == {k \in 1..Len(s) : s[k] = "\n"}
        n       == Cardinality(nl)
        \* the position of the k-th line feed; 0 before the first piece and
        \* Len(s) + 1 after the last
        cut(k)  == IF k = 0 THEN 0
                   ELSE IF k = n + 1 THEN Len(s) + 1
                   ELSE CHOOSE p \in nl : Cardinality({q \in nl : q <= p}) = k
    IN  [k \in 1..(n + 1) |-> SubSeq(s, cut(k - 1) + 1, cut(k) - 1)]

\* " ".join(parts)
RECURSIVE Join(_)
Join(parts) ==
    IF parts = << >> THEN EmptyStr
    ELSE IF Len(parts) = 1 THEN parts[1]
    ELSE parts[1] \o <<" ">> \o Join(Tail(parts))

\* The dictionary both extraction paths return when they have nothing.
EmptyData == [abstract |-> EmptyStr, full_text |-> EmptyStr]

\* An exception that no except clause caught.
Raised == [raised |-> TRUE]

---------------------------------------------------------------------------
(* extract_text_with_pymupdf.                                              *)
(* A PDF on disk is [opens, pages]: whether fitz.open succeeds, and the    *)
(* text page.get_text() returns for each page in order.                    *)

\* for page_num in range(len(doc)): the pages with visible text, each
\* followed by a line feed.
RECURSIVE PageText(_)
PageText(pages) ==
    IF pages = << >> THEN EmptyStr
    ELSE (IF Strip(pages[1]) # EmptyStr THEN pages[1] \o <<"\n">> ELSE EmptyStr)
         \o PageText(Tail(pages))

\* Variant: lines[:21], a slice one line too long.
CandidatesWide(ls) == SubSeq(ls, 1, IF Len(ls) < ScanLines + 1 THEN Len(ls) ELSE ScanLines + 1)

\* lines[:20]
Candidates(ls) == SubSeq(ls, 1, IF Len(ls) < ScanLines THEN Len(ls) ELSE ScanLines)

\* if line and len(line) > 50
IsLong(line) == line # EmptyStr /\ Len(line) > MinLineLen

\* if len(abstract) > 500: break
BufferFull(abstract) == Len(abstract) > AbstractBudget

\* The loop's state before its first iteration: abstract = "".  seen counts
\* the lines the loop has taken from lines[:20]; appended lists (history)
\* the numbers of the lines it appended.
ScanStart == [seen |-> 0, abstract |-> EmptyStr, broke |-> FALSE, appended |-> << >>]

\* The loop has no further iteration.
ScanOver(st, ls) == st.broke \/ st.seen >= Len(Candidates(ls))

\* One iteration of: for i, line in enumerate(lines[:20]).
ScanLine(st, ls) ==
    LET line == Strip(Candidates(ls)[st.seen + 1])
    IN  IF IsLong(line)
        THEN LET abstract == st.abstract \o line \o <<" ">>
             IN  [seen     |-> st.seen + 1,
                  abstract |-> abstract,
                  broke    |-> BufferFull(abstract),
                  appended |-> Append(st.appended, st.seen + 1)]
        ELSE [st EXCEPT !.seen = @ + 1]

\* The whole loop.
RECURSIVE ScanAll(_, _)
ScanAll(st, ls) == IF ScanOver(st, ls) THEN st ELSE ScanAll(ScanLine(st, ls), ls)

\* return {"abstract": abstract.strip(), "full_text": full_text.strip()}
ScanReturnValue(st, text) == [abstract |-> Strip(st.abstract), full_text |-> Strip(text)]

\* Variant: the function without its except clause; fitz.open's exception
\* leaves it.
ExtractTextWithPyMuPDFRaising(p) ==
    IF ~p.opens
    THEN Raised
    ELSE LET text == PageText(p.pages)
         IN  ScanReturnValue(ScanAll(ScanStart, Split(text)), text)

\* The function as a whole: the try body, or the except clause's dictionary
\* when fitz.open raises.
ExtractTextWithPyMuPDF(p) ==
    IF ~p.opens
    THEN EmptyData
    ELSE LET text == PageText(p.pages)
         IN  ScanReturnValue(ScanAll(ScanStart, Split(text)), text)

---------------------------------------------------------------------------
(* parse_pdf_to_xml, extract_text_from_element, extract_from_xml.          *)
(* A response of the service is [raises, status_code, text]: raises is an  *)
(* exception of open() or requests.post (connection error, timeout).       *)
(* response.text is [empty, tree]: whether it is the empty string, and the *)
(* tree ET.fromstring builds from it, None when it is not well-formed XML. *)
(* A tree is [abstract_elem, body_elem]: what root.find returns for        *)
(* .//tei:profileDesc/tei:abstract and for .//tei:body, None or an         *)
(* element.  An element is [texts]: the .text attributes, each None or     *)
(* [text |-> string], of the elements element.iter() yields, in order.     *)

\* try: ... if response.status_code == 200: return response.text
\* else: return None ... except Exception: return None
ParsePdfToXml(response) ==
    IF response.raises THEN None
    ELSE IF response.status_code = HttpOk THEN response.text
    ELSE None

\* if xml_content: neither None nor the empty string
Truthy(xml) == xml # None /\ ~xml.empty

\* for elem in element.iter(): if elem.text and elem.text.strip():
\*     text_parts.append(elem.text.strip())
RECURSIVE TextParts(_)
TextParts(texts) ==
    IF texts = << >> THEN << >>
    ELSE (IF texts[1] # None /\ Strip(texts[1].text) # EmptyStr
          THEN <<Strip(texts[1].text)>>
          ELSE << >>)
         \o TextParts(Tail(texts))

\* extract_text_from_element
ExtractTextFromElement(element) ==
    IF element = None THEN EmptyStr ELSE Join(TextParts(element.texts))

\* extract_from_xml: the try body, or the except clause's dictionary when
\* ET.fromstring raises.
ExtractFromXml(xml) ==
    IF xml.tree = None
    THEN EmptyData
    ELSE [abstract  |-> IF xml.tree.abstract_elem # None
                        THEN ExtractTextFromElement(xml.tree.abstract_elem)
                        ELSE EmptyStr,
          full_text |-> IF xml.tree.body_elem # None
                        THEN ExtractTextFromElement(xml.tree.body_elem)
                        ELSE EmptyStr]

---------------------------------------------------------------------------
(* parse_article.                                                          *)

GROBID == "GROBID"

PyMuPDF == "PyMuPDF"

\* No method assigned yet.
NoMethod == ""

\* Variant: a falsy xml_content sends the request again.
BranchRetry(xml) ==
    IF Truthy(xml) THEN "extract_from_xml" ELSE "parse_pdf_to_xml"

\* if xml_content: ... else: ... -- the call parse_article makes next.
Branch(xml) ==
    IF Truthy(xml) THEN "extract_from_xml" ELSE "extract_text_with_pymupdf"

\* extracted_data = self.extract_from_xml(xml_content); method = "GROBID"
GrobidBranch(xml) ==
    [extracted_data |-> ExtractFromXml(xml), method |-> GROBID]

\* Variant: the else branch with the method of the if branch.
PyMuPDFBranchMislabelled(p) ==
    [extracted_data |-> ExtractTextWithPyMuPDF(p), method |-> GROBID]

\* extracted_data = self.extract_text_with_pymupdf(pdf_path); method = "PyMuPDF"
PyMuPDFBranch(p) ==
    [extracted_data |-> ExtractTextWithPyMuPDF(p), method |-> PyMuPDF]

\* Variant: or in place of and.
NoTextEither(data) == data.abstract = EmptyStr \/ data.full_text = EmptyStr

\* if not extracted_data["abstract"] and not extracted_data["full_text"]
NoText(data) == data.abstract = EmptyStr /\ data.full_text = EmptyStr

\* Variant: name.split('.')[0], the name up to its first dot.
StemAtFirstDot(name) ==
    IF \E p \in 1..Len(name) : name[p] = "."
    THEN SubSeq(name, 1, (CHOOSE p \in 1..Len(name) :
                             /\ name[p] = "."
                             /\ \A q \in 1..(p - 1) : name[q] # ".") - 1)
    ELSE name

\* pdf_path.stem: the name up to its last dot, or the whole name when it has
\* no dot or its last dot is its first or its last character.
Stem(name) ==
    LET dots == {p \in 1..Len(name) : name[p] = "."}
        last == IF dots = {} THEN 0
                ELSE CHOOSE p \in dots : \A q \in dots : q <= p
    IN  IF 1 < last /\ last < Len(name) THEN SubSeq(name, 1, last - 1) ELSE name

\* result = {"filename": ..., ..., "method": method}
MakeResult(name, data, m) ==
    [filename        |-> name,
     title           |-> Stem(name),
     abstract        |-> data.abstract,
     full_text       |-> data.full_text,
     abstract_length |-> Len(data.abstract),
     text_length     |-> Len(data.full_text),
     method          |-> m]

\* What parse_article returns once a path has run.
ParseArticleReturn(name, data, m) ==
    IF NoText(data) THEN None ELSE MakeResult(name, data, m)

---------------------------------------------------------------------------
(* main.                                                                   *)

\* f"{result['title']}_{result['method']}.json"
ArticleFilename(result) ==
    result.title \o <<"_">>
    \o (IF result.method = GROBID THEN <<"G", "R", "O", "B", "I", "D">> ELSE <<"P", "y", "M", "u", "P", "D", "F">>)
    \o <<".", "j", "s", "o", "n">>

AllArticlesName == <<"a", "l", "l", "_", "a", "r", "t", "i", "c", "l", "e", "s", ".", "j", "s", "o", "n">>

StatisticsName == <<"p", "a", "r", "s", "i", "n", "g", "_", "s", "t", "a", "t", "i", "s", "t", "i", "c", "s", ".", "j", "s", "o", "n">>

\* with open(path, 'w') ...: json.dump(content, f) -- the file replaces one
\* of the same name.
WriteFile(files, name, content) ==
    {f \in files : f.name # name} \cup {[name |-> name, content |-> content]}

\* Variant: a test that every result passes.
AlwaysGrobid(result) == TRUE

\* if result['method'] == 'GROBID'
IsGrobid(result) == result.method = GROBID

\* The decimal digits of n.
RECURSIVE Digits(_)
Digits(n) ==
    IF n < 10 THEN <<<<"0", "1", "2", "3", "4", "5", "6", "7", "8", "9">>[n + 1]>>
    ELSE Digits(n \div 10) \o Digits(n % 10)

\* f"{x:.1f}%" of x = s / t * 100: x rounded to one decimal, a tie to the
\* even digit (a tie needs 16 to divide t; the quotient's binary rounding
\* error is far below the distance of every other value from a tie).
FormatRate(s, t) ==
    LET floor  == (1000 * s) \div t
        twice  == 2 * ((1000 * s) % t)
        tenths == IF twice > t \/ (twice = t /\ floor % 2 = 1)
                  THEN floor + 1 ELSE floor
    IN  Digits(tenths \div 10) \o <<".">> \o Digits(tenths % 10) \o <<"%">>

\* len(results)/len(pdf_files)*100: ZeroDivisionError when there is no file.
SuccessRate(s, t) == IF t = 0 THEN Raised ELSE FormatRate(s, t)

\* Variant: successful taken from the GROBID counter alone.
StatsSuccessfulMiscounted(files, res, g, p, f) ==
    [total_files     |-> Len(files),
     successful      |-> g,
     grobid_success  |-> g,
     pymupdf_success |-> p,
     failed          |-> f,
     success_rate    |-> SuccessRate(Len(res), Len(files))]

\* stats = {"total_files": len(pdf_files), ...}
Stats(files, res, g, p, f) ==
    [total_files     |-> Len(files),
     successful      |-> Len(res),
     grobid_success  |-> g,
     pymupdf_success |-> p,
     failed          |-> f,
     success_rate    |-> SuccessRate(Len(res), Len(files))]

\* Variant: the report without its guard.
ReportAlways(res) == TRUE

\* if results:
ShouldReport(res) == res # << >>

---------------------------------------------------------------------------
(* The PDF files the heuristic scan is checked on: an optional front page  *)
(* of short lines, followed by up to MaxPages pages taken from PageKinds.  *)

\* k short lines, the text of one page.
FrontPage(k) == [j \in 1..(6 * k) |-> IF j % 6 = 0 THEN "\n" ELSE "t"]

\* A page of white space only.
BlankPage == <<" ", "\n">>

\* One line of exactly MinLineLen characters between white space.
EdgeLinePage == <<" ">> \o Rep("a", MinLineLen) \o <<" ", "\n">>

\* One line of MinLineLen + 1 characters between white space.
LongLinePage == <<" ">> \o Rep("b", MinLineLen + 1) \o <<"\t", "\n">>

\* One line that leaves room for one more long line below the budget.
BigLinePage == Rep("c", AbstractBudget - MinLineLen - 1) \o <<"\n">>

\* Two lines that fill the budget exactly, their separating spaces included.
HalfLinesPage ==
    Rep("d", AbstractBudget \div 2 - 1) \o <<"\n">>
    \o Rep("e", AbstractBudget \div 2 - 1) \o <<"\n">>

\* Two long lines on one page.
TwoLongLinesPage ==
    Rep("f", MinLineLen + 1) \o <<"\n">> \o Rep("g", MinLineLen + 1) \o <<"\n">>

PageKinds == {BlankPage, EdgeLinePage, LongLinePage, BigLinePage,
              HalfLinesPage, TwoLongLinesPage}

\* The numbers of short lines on the front page; 0 is no front page.
FrontLines == {0} \cup ((ScanLines - 4)..ScanLines)

ScanPdfs ==
    {[opens |-> FALSE, pages |-> << >>]} \cup
    {[opens |-> TRUE,
      pages |-> (IF k = 0 THEN << >> ELSE <<FrontPage(k)>>) \o tail] :
        k \in FrontLines,
        tail \in UNION {[1..n -> PageKinds] : n \in 0..MaxPages}}

---------------------------------------------------------------------------
(* extract_text_with_pymupdf, step by step.                                *)

\* The values the variables of main() have while it is not running.
MainOff ==
    /\ pdf_files = << >>
    /\ i = 0
    /\ pc = "off"
    /\ xml_content = None
    /\ extracted_data = None
    /\ method = NoMethod
    /\ results = << >>
    /\ grobid_success = 0
    /\ pymupdf_success = 0
    /\ failed = 0
    /\ written = {}
    /\ log = << >>

\* The values the variables of the stepwise scan have while it is not running.
ScanOff ==
    /\ pdf = None
    /\ full_text = EmptyStr
    /\ lines = << >>
    /\ scan = ScanStart
    /\ spc = "off"
    /\ scan_result = None

InitScan ==
    /\ MainOff
    /\ pdf \in ScanPdfs
    /\ full_text = EmptyStr
    /\ lines = << >>
    /\ scan = ScanStart
    /\ spc = "open"
    /\ scan_result = None

\* doc = fitz.open(pdf_path) ... lines = full_text.split('\n'); abstract = "";
\* when fitz.open raises, the except clause returns the empty dictionary.
OpenAndRead ==
    /\ spc = "open"
    /\ IF pdf.opens
       THEN /\ full_text' = PageText(pdf.pages)
            /\ lines' = Split(full_text')
            /\ scan' = ScanStart
            /\ spc' = "loop"
            /\ UNCHANGED scan_result
       ELSE /\ scan_result' = EmptyData
            /\ spc' = "returned"
            /\ UNCHANGED <<full_text, lines, scan>>
    /\ UNCHANGED pdf
    /\ UNCHANGED mainVars

\* One iteration of the abstract loop.
ScanIteration ==
    /\ spc = "loop"
    /\ ~ScanOver(scan, lines)
    /\ scan' = ScanLine(scan, lines)
    /\ UNCHANGED <<pdf, full_text, lines, spc, scan_result>>
    /\ UNCHANGED mainVars

\* The return statement after the loop.
ScanReturn ==
    /\ spc = "loop"
    /\ ScanOver(scan, lines)
    /\ scan_result' = ScanReturnValue(scan, full_text)
    /\ spc' = "returned"
    /\ UNCHANGED <<pdf, full_text, lines, scan>>
    /\ UNCHANGED mainVars

NextScan == OpenAndRead \/ ScanIteration \/ ScanReturn

SpecScan == InitScan /\ [][NextScan]_vars

---------------------------------------------------------------------------
(* The inputs of a run of main().                                          *)

\* The k-th name input_dir.glob("*.pdf") yields: a plain name, a name with
\* two dots, a name that begins with its only other dot.
PdfSuffix == <<".", "p", "d", "f">>

FileName(k) ==
    IF k % 3 = 1 THEN Rep("a", k) \o PdfSuffix
    ELSE IF k % 3 = 2 THEN Rep("b", k - 1) \o <<".", "c">> \o PdfSuffix
    ELSE <<".">> \o Rep("d", k - 3) \o PdfSuffix

Listing(n) == [k \in 1..n |-> FileName(k)]

Text(t) == [text |-> t]

Elem(texts) == [texts |-> texts]

EmptyBody == [empty |-> TRUE, tree |-> None]

\* A body that is not well-formed XML, such as an HTML error page.
Garbage == [empty |-> FALSE, tree |-> None]

Tei(abstract_elem, body_elem) ==
    [empty |-> FALSE,
     tree  |-> [abstract_elem |-> abstract_elem, body_elem |-> body_elem]]

\* <abstract><p>Foo bar.</p></abstract>
AbstractElem == Elem(<<None, Text(<<"F", "o", "o", " ", "b", "a", "r", ".">>)>>)

\* <body> <div><head/><p> Hello </p><p>world.</p></div></body>
BodyElem == Elem(<<Text(<<" ">>), None, None, Text(<<" ", "H", "e", "l", "l", "o", " ">>), Text(<<"w", "o", "r", "l", "d", ".">>)>>)

\* <abstract> </abstract>, <body><div/></body>: elements without visible text
BlankElem == Elem(<<Text(<<" ", "\n">>), None>>)

Bodies == {EmptyBody, Garbage,
           Tei(None, None), Tei(BlankElem, BlankElem),
           Tei(AbstractElem, None), Tei(None, BodyElem),
           Tei(AbstractElem, BodyElem), Tei(BlankElem, BodyElem)}

Responses ==
    {[raises |-> TRUE, status_code |-> 0, text |-> EmptyBody]}
    \cup {[raises |-> FALSE, status_code |-> 503, text |-> Garbage]}
    \cup {[raises |-> FALSE, status_code |-> HttpOk, text |-> b] : b \in Bodies}

\* A page of one short line.
ShortLinePage == <<"S", "h", "o", "r", "t", " ", "t", "e", "x", "t", "\n">>

\* The local PDF files of a run: one that does not open, one without pages,
\* one of blank pages, one of short lines, one with a long line.
MainPdfs ==
    {[opens |-> FALSE, pages |-> << >>],
     [opens |-> TRUE, pages |-> << >>],
     [opens |-> TRUE, pages |-> <<BlankPage>>],
     [opens |-> TRUE, pages |-> <<ShortLinePage, BlankPage, ShortLinePage>>],
     [opens |-> TRUE, pages |-> <<ShortLinePage, LongLinePage>>]}

---------------------------------------------------------------------------
(* main(), step by step.  log (history) holds one entry per document whose *)
(* processing began: its file name, the calls parse_article made, what the *)
(* structured path returned, what the path that ran returned, the outcomes *)
(* main recorded and the delays that followed.                             *)

Init ==
    /\ pdf_files \in {Listing(n) : n \in 0..MaxFiles}
    /\ i = 0
    /\ pc = "for"
    /\ xml_content = None
    /\ extracted_data = None
    /\ method = NoMethod
    /\ results = << >>
    /\ grobid_success = 0
    /\ pymupdf_success = 0
    /\ failed = 0
    /\ written = {}
    /\ log = << >>
    /\ ScanOff

\* for i, pdf_path in enumerate(pdf_files, 1): the next document, and the
\* entry into parse_article; or the end of the loop.
ForNext ==
    /\ pc = "for"
    /\ IF i < Len(pdf_files)
       THEN /\ pc' = "parse_pdf_to_xml"
            /\ log' = Append(log, [filename   |-> pdf_files[i + 1],
                                   calls      |-> << >>,
                                   structured |-> EmptyData,
                                   data       |-> EmptyData,
                                   outcomes   |-> << >>,
                                   delays     |-> 0])
       ELSE /\ pc' = "report"
            /\ UNCHANGED log
    /\ UNCHANGED <<pdf_files, i, xml_content, extracted_data, method, results,
                   grobid_success, pymupdf_success, failed, written>>
    /\ UNCHANGED scanVars

\* xml_content = self.parse_pdf_to_xml(pdf_path)
CallParsePdfToXml ==
    /\ pc = "parse_pdf_to_xml"
    /\ \E response \in Responses :
          /\ xml_content' = ParsePdfToXml(response)
          /\ pc' = Branch(xml_content')
    /\ log' = [log EXCEPT ![Len(log)].calls = Append(@, "parse_pdf_to_xml")]
    /\ UNCHANGED <<pdf_files, i, extracted_data, method, results,
                   grobid_success, pymupdf_success, failed, written>>
    /\ UNCHANGED scanVars

\* The branch of a truthy xml_content.
CallExtractFromXml ==
    /\ pc = "extract_from_xml"
    /\ LET b == GrobidBranch(xml_content)
       IN  /\ extracted_data' = b.extracted_data
           /\ method' = b.method
           /\ log' = [log EXCEPT ![Len(log)].calls = Append(@, "extract_from_xml"),
                                 ![Len(log)].structured = b.extracted_data,
                                 ![Len(log)].data = b.extracted_data]
    /\ pc' = "check"
    /\ UNCHANGED <<pdf_files, i, xml_content, results,
                   grobid_success, pymupdf_success, failed, written>>
    /\ UNCHANGED scanVars

\* The else branch; an exception that extract_text_with_pymupdf lets through
\* ends the run.
CallExtractTextWithPyMuPDF ==
    /\ pc = "extract_text_with_pymupdf"
    /\ \E p \in MainPdfs :
          LET b == PyMuPDFBranch(p)
          IN  IF b.extracted_data = Raised
              THEN /\ pc' = "crashed"
                   /\ log' = [log EXCEPT ![Len(log)].calls =
                                            Append(@, "extract_text_with_pymupdf")]
                   /\ UNCHANGED <<extracted_data, method>>
              ELSE /\ pc' = "check"
                   /\ extracted_data' = b.extracted_data
                   /\ method' = b.method
                   /\ log' = [log EXCEPT ![Len(log)].calls =
                                            Append(@, "extract_text_with_pymupdf"),
                                         ![Len(log)].data = b.extracted_data]
    /\ UNCHANGED <<pdf_files, i, xml_content, results,
                   grobid_success, pymupdf_success, failed, written>>
    /\ UNCHANGED scanVars

\* The end of parse_article (the emptiness check and the result) and the
\* loop body's handling of what it returned.
HandleResult ==
    /\ pc = "check"
    /\ LET result == ParseArticleReturn(pdf_files[i + 1], extracted_data, method)
       IN  IF result # None
           THEN /\ results' = Append(results, result)
                /\ IF IsGrobid(result)
                   THEN /\ grobid_success' = grobid_success + 1
                        /\ UNCHANGED pymupdf_success
                   ELSE /\ pymupdf_success' = pymupdf_success + 1
                        /\ UNCHANGED grobid_success
                /\ written' = WriteFile(written, ArticleFilename(result), result)
                /\ log' = [log EXCEPT ![Len(log)].outcomes = Append(@, "emitted")]
                /\ UNCHANGED failed
           ELSE /\ failed' = failed + 1
                /\ log' = [log EXCEPT ![Len(log)].outcomes = Append(@, "failed")]
                /\ UNCHANGED <<results, grobid_success, pymupdf_success, written>>
    /\ pc' = "sleep"
    /\ UNCHANGED <<pdf_files, i, xml_content, extracted_data, method>>
    /\ UNCHANGED scanVars

\* time.sleep(1), the last statement of the loop body.
Sleep ==
    /\ pc = "sleep"
    /\ i' = i + 1
    /\ log' = [log EXCEPT ![Len(log)].delays = @ + 1]
    /\ pc' = "for"
    /\ UNCHANGED <<pdf_files, xml_content, extracted_data, method, results,
                   grobid_success, pymupdf_success, failed, written>>
    /\ UNCHANGED scanVars

\* if results: all_articles.json, the statistics and their file; else only
\* a message.  The division raises when there is no file.
Report ==
    /\ pc = "report"
    /\ IF ShouldReport(results)
       THEN LET stats == Stats(pdf_files, results, grobid_success,
                               pymupdf_success, failed)
                all   == WriteFile(written, AllArticlesName, results)
            IN  IF stats.success_rate = Raised
                THEN /\ written' = all
                     /\ pc' = "crashed"
                ELSE /\ written' = WriteFile(all, StatisticsName, stats)
                     /\ pc' = "done"
       ELSE /\ pc' = "done"
            /\ UNCHANGED written
    /\ UNCHANGED <<pdf_files, i, xml_content, extracted_data, method, results,
                   grobid_success, pymupdf_success, failed, log>>
    /\ UNCHANGED scanVars

Next ==
    \/ ForNext
    \/ CallParsePdfToXml
    \/ CallExtractFromXml
    \/ CallExtractTextWithPyMuPDF
    \/ HandleResult
    \/ Sleep
    \/ Report

Spec == Init /\ [][Next]_vars

\* main() is one sequential thread whose every call returns: a step that can
\* be taken is taken.
FairSpec == Spec /\ WF_vars(Next)

---------------------------------------------------------------------------
(* C5                                                                      *)

\* The length of the buffer made of the first n appended lines: each line
\* stripped, followed by one space.
RECURSIVE BufferLen(_, _, _)
BufferLen(ls, appended, n) ==
    IF n = 0 THEN 0
    ELSE BufferLen(ls, appended, n - 1) + Len(Strip(ls[appended[n]])) + 1

\* C5: the abstract loop of extract_text_with_pymupdf never takes a line
\* beyond the 20th; every line it appends has a stripped length strictly
\* greater than 50; it appends a line only while the buffer is at most 500
\* long, so no line is appended once the buffer exceeds 500; and the buffer,
\* like the returned abstract, exceeds 500 by at most the length of the last
\* appended line plus its separating space.
C5_ScanBound ==
    (spc \in {"loop", "returned"} /\ pdf.opens) =>
        LET n    == Len(scan.appended)
            last == Len(Strip(lines[scan.appended[n]]))
        IN  /\ scan.seen <= ScanLines
            /\ \A p \in 1..n :
                  /\ scan.appended[p] <= ScanLines
                  /\ Len(Strip(lines[scan.appended[p]])) > MinLineLen
                  /\ BufferLen(lines, scan.appended, p - 1) <= AbstractBudget
            /\ Len(scan.abstract) = BufferLen(lines, scan.appended, n)
            /\ n = 0 => scan.abstract = EmptyStr
            /\ n > 0 => Len(scan.abstract) <= AbstractBudget + last + 1
            /\ (spc = "returned" /\ n > 0) =>
                  Len(scan_result.abstract) <= AbstractBudget + last + 1
            /\ (spc = "returned" /\ n = 0) => scan_result.abstract = EmptyStr

\* C5 witness: a scan that stopped at the 20th line with a buffer longer than
\* 500 and returned an abstract longer than 500, while a long line follows
\* that it never took.
C5_Witness ==
    /\ spc = "returned"
    /\ pdf.opens
    /\ scan.broke
    /\ scan.seen = ScanLines
    /\ Len(scan_result.abstract) > AbstractBudget
    /\ \E k \in (scan.seen + 1)..Len(lines) : IsLong(Strip(lines[k]))

---------------------------------------------------------------------------
(* Definitions the properties of main() share.                             *)

HasText(data) == data.abstract # EmptyStr \/ data.full_text # EmptyStr

\* The documents whose outcome main has recorded.
Decided == {k \in 1..Len(log) : log[k].outcomes # << >>}

\* The positions of the results that carry the file name of document k.
ResultsOf(k) == {j \in 1..Len(results) : results[j].filename = log[k].filename}

\* The per-document files written for document k.
ArticleFilesOf(k) ==
    {f \in written : /\ f.name \notin {AllArticlesName, StatisticsName}
                     /\ f.content.filename = log[k].filename}

Occurrences(seq, x) == Cardinality({n \in 1..Len(seq) : seq[n] = x})

WithMethod(m) == {j \in 1..Len(results) : results[j].method = m}

---------------------------------------------------------------------------
(* C1                                                                      *)

\* C1: whenever the structured path of a document yields no usable data (an
\* empty abstract and an empty full_text, whatever the cause),
\* extract_text_with_pymupdf is called for that document before its outcome
\* is decided.
C1_FallbackWheneverNoStructuredData ==
    \A k \in Decided :
        (log[k].structured.abstract = EmptyStr /\ log[k].structured.full_text = EmptyStr)
            => Occurrences(log[k].calls, "extract_text_with_pymupdf") >= 1

---------------------------------------------------------------------------
(* C2                                                                      *)

\* C2: a document's result is appended to results and written as its own
\* file if and only if the abstract or the full_text of the path that ran is
\* non-empty; otherwise the document is counted in failed and no file is
\* written for it.  No result has both of them empty.
C2_EmittedIffText ==
    /\ \A k \in Decided :
          /\ HasText(log[k].data) <=> Cardinality(ResultsOf(k)) = 1
          /\ HasText(log[k].data) <=> ArticleFilesOf(k) # {}
          /\ HasText(log[k].data) <=> log[k].outcomes = <<"emitted">>
          /\ ~HasText(log[k].data) <=> log[k].outcomes = <<"failed">>
          /\ ~HasText(log[k].data) => ResultsOf(k) = {}
    /\ \A k \in (1..Len(log)) \ Decided : ResultsOf(k) = {} /\ ArticleFilesOf(k) = {}
    /\ failed = Cardinality({k \in Decided : ~HasText(log[k].data)})
    /\ \A j \in 1..Len(results) : HasText(results[j])

\* C2 witness: a finished run in which one document was emitted for its
\* full_text alone and another was counted as failed.
C2_Witness ==
    /\ pc = "done"
    /\ \E k \in Decided :
          /\ log[k].data.abstract = EmptyStr
          /\ log[k].data.full_text # EmptyStr
          /\ ResultsOf(k) # {}
          /\ ArticleFilesOf(k) # {}
    /\ \E k \in Decided : ~HasText(log[k].data) /\ ArticleFilesOf(k) = {}
    /\ failed >= 1

---------------------------------------------------------------------------
(* C3                                                                      *)

\* C3: the method recorded in a result is "GROBID" if and only if the
\* structured path returned a non-empty abstract or a non-empty full_text
\* for that document; otherwise it is "PyMuPDF".
C3_MethodProvenance ==
    \A k \in 1..Len(log) : \A j \in ResultsOf(k) :
        /\ results[j].method = GROBID <=> HasText(log[k].structured)
        /\ results[j].method # GROBID => results[j].method = PyMuPDF
        /\ \A f \in ArticleFilesOf(k) : f.content.method = results[j].method

\* C3 witness: results of both methods, the heuristic one for a document
\* whose structured path returned nothing.
C3_Witness ==
    \E k1, k2 \in Decided :
        /\ \E j \in ResultsOf(k1) : results[j].method = GROBID
        /\ \E j \in ResultsOf(k2) : results[j].method = PyMuPDF
        /\ ~HasText(log[k2].structured)

---------------------------------------------------------------------------
(* C4                                                                      *)

\* C4: after every iteration of the loop and in the statistics written at
\* the end, grobid_success is the number of results with method "GROBID",
\* pymupdf_success the number with method "PyMuPDF", the length of results
\* is their sum, and the length of results plus failed is the number of
\* documents processed so far (all of them at the end).
C4_CountersAgree ==
    /\ grobid_success = Cardinality(WithMethod(GROBID))
    /\ pymupdf_success = Cardinality(WithMethod(PyMuPDF))
    /\ Len(results) = grobid_success + pymupdf_success
    /\ pc \in {"for", "report", "done"} => Len(results) + failed = i
    /\ pc \in {"sleep"} => Len(results) + failed = i + 1
    /\ pc \in {"report", "done"} => i = Len(pdf_files)
    /\ \A f \in written :
          f.name = StatisticsName =>
              /\ f.content.grobid_success = Cardinality(WithMethod(GROBID))
              /\ f.content.pymupdf_success = Cardinality(WithMethod(PyMuPDF))
              /\ f.content.successful = Len(results)
              /\ f.content.successful
                    = f.content.grobid_success + f.content.pymupdf_success
              /\ f.content.successful + f.content.failed = f.content.total_files
              /\ f.content.total_files = Len(pdf_files)

\* C4 witness: statistics written after a run with a result of each method
\* and a failed document.
C4_Witness ==
    /\ pc = "done"
    /\ grobid_success >= 1
    /\ pymupdf_success >= 1
    /\ failed >= 1
    /\ \E f \in written : f.name = StatisticsName

---------------------------------------------------------------------------
(* C6                                                                      *)

\* C6: for one document parse_pdf_to_xml is called exactly once, and first;
\* extract_text_with_pymupdf is called at most once and only after it; no
\* path is called again after it failed.
C6_OneShot ==
    \A k \in 1..Len(log) :
        LET calls == log[k].calls
        IN  /\ Occurrences(calls, "parse_pdf_to_xml") <= 1
            /\ Occurrences(calls, "extract_from_xml") <= 1
            /\ Occurrences(calls, "extract_text_with_pymupdf") <= 1
            /\ calls # << >> => calls[1] = "parse_pdf_to_xml"
            /\ (k \in Decided \/ k < Len(log)) =>
                  Occurrences(calls, "parse_pdf_to_xml") = 1
            /\ \A n \in 1..Len(calls) :
                  calls[n] = "extract_text_with_pymupdf" =>
                      \E m \in 1..(n - 1) : calls[m] = "parse_pdf_to_xml"

\* C6 witness: a document for which both paths were called, once each, and
\* both failed.
C6_Witness ==
    \E k \in Decided :
        /\ log[k].calls = <<"parse_pdf_to_xml", "extract_text_with_pymupdf">>
        /\ log[k].outcomes = <<"failed">>
        /\ k < Len(log)

---------------------------------------------------------------------------
(* C7                                                                      *)

\* The documents whose loop body is complete.
Complete(k) == Len(log[k].outcomes) = 1 /\ log[k].delays = 1

\* C7: no fault ends the run early.  The loop takes the documents one at a
\* time in the order of pdf_files, each once; each ends in exactly one
\* outcome, followed by one delay; and the run reaches its end, with every
\* document processed.
C7_NoAbort ==
    /\ [](/\ pc # "crashed"
          /\ Len(log) <= Len(pdf_files)
          /\ \A k \in 1..Len(log) :
                /\ log[k].filename = pdf_files[k]
                /\ Len(log[k].outcomes) <= 1
                /\ log[k].delays <= Len(log[k].outcomes)
                /\ k < Len(log) => Complete(k)
          /\ i = Cardinality({k \in 1..Len(log) : Complete(k)})
          /\ pc = "done" =>
                /\ Len(log) = Len(pdf_files)
                /\ \A k \in 1..Len(log) : Complete(k))
    /\ <>(pc = "done")

\* C7 witness: the end of a run of at least two documents, one of which
\* failed on both paths and one of which failed on a response that is not
\* empty and yields no text.
C7_Witness ==
    /\ pc = "done"
    /\ Len(pdf_files) >= 2
    /\ \E k \in 1..Len(log) :
          /\ log[k].calls = <<"parse_pdf_to_xml", "extract_text_with_pymupdf">>
          /\ log[k].outcomes = <<"failed">>
          /\ log[k].delays = 1
    /\ \E k \in 1..Len(log) :
          /\ log[k].calls = <<"parse_pdf_to_xml", "extract_from_xml">>
          /\ log[k].outcomes = <<"failed">>
          /\ log[k].delays = 1

---------------------------------------------------------------------------
(* C8                                                                      *)

\* name is title followed by an extension: a dot that is neither the first
\* nor the last character of name, followed by characters other than a dot;
\* or name has no such dot and title is all of it.
WithoutExtension(title, name) ==
    LET n == Len(title)
    IN  /\ n <= Len(name)
        /\ SubSeq(name, 1, n) = title
        /\ IF n = Len(name)
           THEN \A p \in 2..(Len(name) - 1) : name[p] # "."
           ELSE /\ n >= 1
                /\ name[n + 1] = "."
                /\ n + 1 < Len(name)
                /\ \A p \in (n + 2)..Len(name) : name[p] # "."

\* C8: in every result, of either method, abstract_length is the length of
\* abstract, text_length the length of full_text, and title the file name
\* without its extension.
C8_LengthsAndTitle ==
    /\ \A j \in 1..Len(results) :
          /\ results[j].abstract_length = Len(results[j].abstract)
          /\ results[j].text_length = Len(results[j].full_text)
          /\ WithoutExtension(results[j].title, results[j].filename)
    /\ \A f \in written :
          f.name \notin {AllArticlesName, StatisticsName} =>
              /\ f.content.abstract_length = Len(f.content.abstract)
              /\ f.content.text_length = Len(f.content.full_text)
              /\ WithoutExtension(f.content.title, f.content.filename)

\* C8 witness: a result of each method, one of them for a file name with two
\* dots, with lengths that differ from one another.
C8_Witness ==
    \E j1, j2 \in 1..Len(results) :
        /\ results[j1].method = GROBID
        /\ results[j2].method = PyMuPDF
        /\ Occurrences(results[j2].filename, ".") = 2
        /\ results[j1].abstract_length > 0
        /\ results[j2].text_length > results[j2].abstract_length
        /\ results[j2].abstract_length > MinLineLen

---------------------------------------------------------------------------
(* C9                                                                      *)

\* The statistics file holds the counts of this run and its rate: the
\* nearest tenth of a percent, written with one decimal and a percent sign.
StatisticsHold(content) ==
    /\ content.total_files = Len(pdf_files)
    /\ content.successful = Len(results)
    /\ content.grobid_success = Cardinality(WithMethod(GROBID))
    /\ content.pymupdf_success = Cardinality(WithMethod(PyMuPDF))
    /\ content.failed = Len(pdf_files) - Len(results)
    /\ \E r \in 0..1000 :
          /\ content.success_rate
                = Digits(r \div 10) \o <<".">> \o Digits(r % 10) \o <<"%">>
          /\ 2 * (r * Len(pdf_files) - 1000 * Len(results)) <= Len(pdf_files)
          /\ 2 * (1000 * Len(results) - r * Len(pdf_files)) <= Len(pdf_files)

StatisticsWritten ==
    \E f \in written : f.name = StatisticsName /\ StatisticsHold(f.content)

AllArticlesWritten ==
    \E f \in written : f.name = AllArticlesName /\ f.content = results

\* C9, as claimed: at the end of a run over a directory with documents,
\* whatever their outcomes, parsing_statistics.json holds the statistics and
\* all_articles.json the results in processing order.
C9_ReportAlwaysWritten ==
    (pc = "done" /\ Len(pdf_files) >= 1) =>
        StatisticsWritten /\ AllArticlesWritten

\* C9, amended: at the end of a run with at least one result both files are
\* written, parsing_statistics.json holding the statistics and
\* all_articles.json the results in processing order; at the end of a run
\* without a result (every document failed, or there was none) the run has
\* written neither.  Neither is written before the loop has ended.
C9_ReportIffAnyResult ==
    /\ (pc = "done" /\ results # << >>) =>
          /\ StatisticsWritten
          /\ AllArticlesWritten
          /\ Cardinality({f \in written :
                             f.name \in {AllArticlesName, StatisticsName}}) = 2
    /\ (pc = "done" /\ results = << >>) => written = {}
    /\ pc \notin {"done", "crashed"} =>
          \A f \in written : f.name \notin {AllArticlesName, StatisticsName}

\* C9 witness: the end of a run of three documents, two emitted by GROBID and
\* one failed, with the statistics of that run written.
C9_Witness ==
    /\ pc = "done"
    /\ AllArticlesWritten
    /\ \E f \in written :
          /\ f.name = StatisticsName
          /\ f.content = [total_files     |-> 3,
                          successful      |-> 2,
                          grobid_success  |-> 2,
                          pymupdf_success |-> 0,
                          failed          |-> 1,
                          success_rate    |-> <<"6", "6", ".", "7", "%">>]

---------------------------------------------------------------------------
(* C10                                                                     *)

\* C10: the division len(results)/len(pdf_files) is never a division by
\* zero.  The report branch is taken only with a non-empty results list, a
\* non-empty results list implies at least one file, and a run over an empty
\* directory ends without the report.
C10_NoDivisionByZero ==
    /\ pc # "crashed"
    /\ results # << >> => Len(pdf_files) >= 1
    /\ \A f \in written :
          f.name \in {AllArticlesName, StatisticsName} =>
              results # << >> /\ Len(pdf_files) >= 1
    /\ (pc = "done" /\ Len(pdf_files) = 0) => written = {}

\* C10 witness: the end of a run over one file, with the rate computed.
C10_Witness ==
    /\ pc = "done"
    /\ Len(pdf_files) = 1
    /\ \E f \in written :
          /\ f.name = StatisticsName
          /\ f.content.success_rate = <<"1", "0", "0", ".", "0", "%">>

=============================================================================
